---- MODULE Spec2Model ----
(***************************************************************************)
(* Schema registration of schematizer/logic/schema_repository.py, and the   *)
(* Redshift to Avro conversion of redshift_to_avro_converter.py.           *)
(*                                                                         *)
(* The store is the four relations Domain, Topic, AvroSchema and           *)
(* AvroSchemaElement.  Every row carries the transaction that wrote it:    *)
(* tx = 0 is a committed row, tx = p a row flushed by request p and not    *)
(* yet committed.  A request reads the committed rows and its own          *)
(* (read-committed isolation).  Each request runs                          *)
(* create_avro_schema_from_avro_json one store call at a time, so that     *)
(* requests interleave between any two store calls.                        *)
(***************************************************************************)
EXTENDS Integers, FiniteSets, Sequences, TLC

VARIABLES
    domains,    \* Domain rows        [id, pair, tx]
    topics,     \* Topic rows         [id, name, domain_id, tx]
    schemas,    \* AvroSchema rows    [id, topic_id, avro_schema_json, status, base_schema_id, tx]
    elements,   \* AvroSchemaElement rows [avro_schema_id, element_type, key, doc, tx]
    nextId,     \* the autoincrement counters of the three tables with an id
    pc,         \* where each request stands in create_avro_schema_from_avro_json
    args,       \* the arguments of each request's call
    domain,     \* the local variable `domain` of each request (a Domain id, 0: unset)
    topic,      \* the local variable `topic` of each request (a Topic id, 0: None)
    ret,        \* what the call returned or raised
    lost,       \* the call caught the IntegrityError of a duplicate Domain
    calls,      \* register calls started
    marks,      \* status updates made
    hist,       \* completed operations in order (kept by the sequential specification)
    src_schema, \* the argument of RedshiftToAvroConverter.convert
    record_json \* what convert returned or raised

vars == <<domains, topics, schemas, elements, nextId, pc, args, domain, topic,
          ret, lost, calls, marks, hist, src_schema, record_json>>

----------------------------------------------------------------------------
(* Bounds *)

MaxCalls == 3
MaxSeqCalls == 3
MaxMarks == 1
MaxColumns == 1

Procs == {1, 2}
SeqProcs == {1}
Pairs == {"n.s", "n.t"}

----------------------------------------------------------------------------
(* Values *)

READ_AND_WRITE == "RW"
READ_ONLY == "R"
DISABLED == "Disabled"
AvroSchemaStatus == {READ_AND_WRITE, READ_ONLY, DISABLED}

\* base_schema_id: 0 is None.
BaseIds == {0, 1}

\* Avro record schemas with a field x and an optional field y that has a
\* default.  doc is the record's doc, xdoc the doc of field x.
SchemaA == [valid |-> TRUE, doc |-> "d", xdoc |-> "d", x |-> "int", y |-> "none"]
SchemaB == [valid |-> TRUE, doc |-> "d", xdoc |-> "d", x |-> "int", y |-> "int"]
SchemaC == [valid |-> TRUE, doc |-> "d", xdoc |-> "d", x |-> "int", y |-> "string"]
SchemaNoDoc == [valid |-> TRUE, doc |-> "d", xdoc |-> "", x |-> "int", y |-> "int"]
SchemaInvalid == [valid |-> FALSE, doc |-> "d", xdoc |-> "d", x |-> "int", y |-> "none"]

DocumentedSchemas == {SchemaA, SchemaB, SchemaC}

\* The calls a request can make: every status and base for the documented
\* schemas, the defaults for the two schemas that are rejected.
Args ==
    [avro_schema_json : DocumentedSchemas, pair : Pairs,
     status : AvroSchemaStatus, base_schema_id : BaseIds]
    \cup [avro_schema_json : {SchemaNoDoc, SchemaInvalid}, pair : Pairs,
          status : {READ_AND_WRITE}, base_schema_id : {0}]

\* The calls of the concurrent requests: the documented schemas as ReadAndWrite
\* and one as Disabled, the two rejected schemas, one call on the other pair.
ConcArgs ==
    [avro_schema_json : DocumentedSchemas, pair : {"n.s"},
     status : {READ_AND_WRITE}, base_schema_id : {0}]
    \cup [avro_schema_json : {SchemaC}, pair : {"n.s"},
          status : {DISABLED}, base_schema_id : {0}]
    \cup [avro_schema_json : {SchemaNoDoc, SchemaInvalid}, pair : {"n.s"},
          status : {READ_AND_WRITE}, base_schema_id : {0}]
    \cup [avro_schema_json : {SchemaA}, pair : {"n.t"},
          status : {READ_AND_WRITE}, base_schema_id : {0}]

\* The calls of the sequential specification.
SeqArgs ==
    [avro_schema_json : DocumentedSchemas, pair : {"n.s"},
     status : {READ_AND_WRITE}, base_schema_id : {0}]
    \cup [avro_schema_json : {SchemaB}, pair : {"n.s"},
          status : {READ_ONLY, DISABLED}, base_schema_id : {0}]
    \cup [avro_schema_json : {SchemaB}, pair : {"n.s"},
          status : {READ_AND_WRITE}, base_schema_id : {1}]
    \cup [avro_schema_json : {SchemaNoDoc, SchemaInvalid}, pair : {"n.s"},
          status : {READ_AND_WRITE}, base_schema_id : {0}]

\* The arguments of a request that is not running.
DefaultArgs == CHOOSE a \in Args : TRUE

NoRet == [kind |-> "none", id |-> 0]
Returned(id) == [kind |-> "schema", id |-> id]
Raised(e) == [kind |-> e, id |-> 0]

----------------------------------------------------------------------------
(* Pure functions *)

\* models.AvroSchema.verify_avro_schema
verify_avro_schema(j) == j.valid

FieldNames(j) == IF j.y = "none" THEN {"x"} ELSE {"x", "y"}
FieldType(j, f) == IF f = "x" THEN j.x ELSE j.y
FieldHasDefault(j, f) == f = "y"

\* SchemaCompatibilityValidator.is_backward_compatible(writer, reader): every
\* field of the reader is either written with the same type or has a default.
ResolvesAsReader(writer, reader) ==
    \A f \in FieldNames(reader) :
        IF f \in FieldNames(writer)
        THEN FieldType(writer, f) = FieldType(reader, f)
        ELSE FieldHasDefault(reader, f)

is_backward_compatible(old_schema_json, new_schema_json) ==
    ResolvesAsReader(old_schema_json, new_schema_json)

is_forward_compatible(old_schema_json, new_schema_json) ==
    ResolvesAsReader(new_schema_json, old_schema_json)

is_full_compatible(old_schema_json, new_schema_json) ==
    /\ is_backward_compatible(old_schema_json, new_schema_json)
    /\ is_forward_compatible(old_schema_json, new_schema_json)

\* models.AvroSchema.create_schema_elements_from_json
create_schema_elements_from_json(j) ==
    {[element_type |-> "record", key |-> "u", doc |-> j.doc]}
    \cup {[element_type |-> "field", key |-> "u|x", doc |-> j.xdoc]}
    \cup (IF j.y = "none" THEN {}
          ELSE {[element_type |-> "field", key |-> "u|y", doc |-> "d"]})

\* Mutant: only the record is required to carry a doc.
required_doc_only_of_records == {"record"}

required_doc_element_types == {"record", "field"}

MissingDoc(j) ==
    \E o \in create_schema_elements_from_json(j) :
        o.element_type \in required_doc_element_types /\ o.doc = ""

----------------------------------------------------------------------------
(* RedshiftToAvroConverter: the input table and the pure conversion *)

\* The classes of redshift_data_types that _type_converters has a key for.
ConvertedTypes ==
    {"RedshiftFloat4", "RedshiftReal",
     "RedshiftFloat", "RedshiftDouble", "RedshiftFloat8",
     "RedshiftInt2", "RedshiftInt4", "RedshiftSmallInt", "RedshiftInteger",
     "RedshiftInt8", "RedshiftBigInt",
     "RedshiftNumeric", "RedshiftDecimal",
     "RedshiftBool", "RedshiftBoolean",
     "RedshiftNChar", "RedshiftBPChar", "RedshiftChar", "RedshiftCharacter",
     "RedshiftNVarChar", "RedshiftCharacterVarying", "RedshiftVarChar",
     "RedshiftText",
     "RedshiftDate", "RedshiftTimestamp"}

\* Every class a column can carry: those above, RedshiftTime, and a class the
\* converter has no rule for.
RedshiftTypes == ConvertedTypes \cup {"RedshiftTime", "RedshiftGeometry"}

\* column.type: the class with the attributes the converters read.
TypeOf(cls) == [cls |-> cls, precision |-> 8, scale |-> 2, length |-> 16]

None == "None"
DefaultValues == {None, "0"}
PrimaryKeyOrders == {0, 1}

ColumnName(i) == <<"c", i>>

Columns ==
    [type : {TypeOf(cls) : cls \in RedshiftTypes},
     is_nullable : BOOLEAN,
     default_value : DefaultValues,
     primary_key_order : PrimaryKeyOrders]

\* What convert can be handed: None, an object that is not a SQLTable, or a
\* SQLTable with its columns in declaration order.
NoSchema == [kind |-> "None", columns |-> <<>>]
NotATable == [kind |-> "object", columns |-> <<>>]
SQLTables ==
    {[kind |-> "SQLTable", columns |-> cs] :
        cs \in UNION {[1..n -> Columns] : n \in 0..MaxColumns}}
SrcSchemas == {NoSchema, NotATable} \cup SQLTables

\* No call of convert has returned yet.
Unset == [kind |-> "unset"]

\* AvroSchemaBuilder.create_<primitive>
Primitive(name) == [kind |-> "primitive", branches |-> <<name>>]

\* AvroSchemaBuilder.begin_nullable_type(...).end(): the null branch is first
\* when the default is null.
begin_nullable_type(field_type, default_value) ==
    [kind |-> "union",
     branches |-> IF default_value = None
                  THEN <<"null">> \o field_type.branches
                  ELSE field_type.branches \o <<"null">>]

\* Lines 139-141.  A metadata dict is the set of its <<key, value>> items.
_get_primary_key_metadata(primary_key_order) ==
    IF primary_key_order # 0
    THEN {<<"primary_key", primary_key_order>>} ELSE {}

\* Lines 155-159.
_get_precision_metadata(column) ==
    {<<"precision", column.type.precision>>, <<"scale", column.type.scale>>}

\* Lines 135-203: the converters, each giving <<Avro type, metadata>>.
_convert_small_integer_type(column) ==
    <<Primitive("int"), _get_primary_key_metadata(column.primary_key_order)>>
_convert_bigint_type(column) ==
    <<Primitive("long"), _get_primary_key_metadata(column.primary_key_order)>>
_convert_boolean_type(column) ==
    <<Primitive("boolean"), _get_primary_key_metadata(column.primary_key_order)>>
_convert_double_type(column) ==
    <<Primitive("double"), _get_primary_key_metadata(column.primary_key_order)>>
_convert_float_type(column) ==
    <<Primitive("float"), _get_primary_key_metadata(column.primary_key_order)>>
_convert_decimal_type(column) ==
    <<Primitive("double"),
      _get_primary_key_metadata(column.primary_key_order)
        \cup {<<"fixed_pt", TRUE>>} \cup _get_precision_metadata(column)>>
_convert_char_type(column) ==
    <<Primitive("string"),
      _get_primary_key_metadata(column.primary_key_order)
        \cup {<<"fix_len", column.type.length>>}>>
_convert_varchar_type(column) ==
    <<Primitive("string"),
      _get_primary_key_metadata(column.primary_key_order)
        \cup {<<"max_len", column.type.length>>}>>
_convert_date_type(column) ==
    <<Primitive("int"),
      _get_primary_key_metadata(column.primary_key_order)
        \cup {<<"date", TRUE>>}>>
_convert_time_type(column) ==
    <<Primitive("int"),
      _get_primary_key_metadata(column.primary_key_order)
        \cup {<<"time", TRUE>>}>>
_convert_timestamp_type(column) ==
    <<Primitive("long"),
      _get_primary_key_metadata(column.primary_key_order)
        \cup {<<"timestamp", TRUE>>}>>

\* Lines 96-133: the dict from class to converter.  RedshiftTime is not a key
\* of it: _convert_time_type is defined and never registered.
_type_converters(type_cls, column) ==
    CASE type_cls \in {"RedshiftFloat4", "RedshiftReal"} ->
            _convert_float_type(column)
      [] type_cls \in {"RedshiftFloat", "RedshiftDouble", "RedshiftFloat8"} ->
            _convert_double_type(column)
      [] type_cls \in {"RedshiftInt2", "RedshiftInt4", "RedshiftSmallInt",
                       "RedshiftInteger"} ->
            _convert_small_integer_type(column)
      [] type_cls \in {"RedshiftInt8", "RedshiftBigInt"} ->
            _convert_bigint_type(column)
      [] type_cls \in {"RedshiftNumeric", "RedshiftDecimal"} ->
            _convert_decimal_type(column)
      [] type_cls \in {"RedshiftBool", "RedshiftBoolean"} ->
            _convert_boolean_type(column)
      [] type_cls \in {"RedshiftNChar", "RedshiftBPChar", "RedshiftChar",
                       "RedshiftCharacter"} ->
            _convert_char_type(column)
      [] type_cls \in {"RedshiftNVarChar", "RedshiftCharacterVarying",
                       "RedshiftVarChar", "RedshiftText"} ->
            _convert_varchar_type(column)
      [] type_cls = "RedshiftDate" -> _convert_date_type(column)
      [] type_cls = "RedshiftTimestamp" -> _convert_timestamp_type(column)

UnsupportedType == <<Raised("UnsupportedTypeException"), {}>>

\* Lines 85-94: look the class up, raise when the dict has no converter.
_create_avro_field_type(column) ==
    LET type_cls == column.type.cls
    IN  IF type_cls \in ConvertedTypes
        THEN _type_converters(type_cls, column)
        ELSE UnsupportedType

\* Mutant: has_default looks at the default value only.
_create_avro_field_default_only(name, column) ==
    LET converted == _create_avro_field_type(column)
        field_type == IF column.is_nullable
                      THEN begin_nullable_type(converted[1], column.default_value)
                      ELSE converted[1]
    IN  IF converted[1].kind = "UnsupportedTypeException"
        THEN converted[1]
        ELSE [kind |-> "field",
              name |-> name,
              type |-> field_type,
              has_default |-> column.default_value # None,
              default_value |-> column.default_value,
              metadata |-> converted[2]]

\* Lines 67-83: the field add_field appends to the open record, or the
\* exception of _create_avro_field_type.
_create_avro_field(name, column) ==
    LET converted == _create_avro_field_type(column)
        field_type == IF column.is_nullable
                      THEN begin_nullable_type(converted[1], column.default_value)
                      ELSE converted[1]
    IN  IF converted[1].kind = "UnsupportedTypeException"
        THEN converted[1]
        ELSE [kind |-> "field",
              name |-> name,
              type |-> field_type,
              has_default |-> column.default_value # None \/ column.is_nullable,
              default_value |-> column.default_value,
              metadata |-> converted[2]]

\* Lines 58-65: the names of the primary key columns.
_get_table_metadata(table) ==
    LET primary_keys ==
            {ColumnName(i) : i \in {k \in DOMAIN table.columns :
                                       table.columns[k].primary_key_order # 0}}
    IN  IF primary_keys # {} THEN {<<"primary_key", primary_keys>>} ELSE {}

\* Lines 41-56: the record with one field per column; the exception of the
\* first column that has no converter ends the call.
_create_avro_record_json(table) ==
    LET columns == table.columns
        fields == [i \in DOMAIN columns |->
                      _create_avro_field(ColumnName(i), columns[i])]
        failed == {i \in DOMAIN columns : fields[i].kind # "field"}
    IN  IF failed # {}
        THEN fields[CHOOSE i \in failed : \A k \in failed : i <= k]
        ELSE [kind |-> "record", fields |-> fields,
              metadata |-> _get_table_metadata(table)]

\* Lines 29-39.
convert(src) ==
    IF src.kind = "None" THEN [kind |-> "None"]
    ELSE IF src.kind # "SQLTable" THEN Raised("SchemaConversionException")
    ELSE _create_avro_record_json(src)

----------------------------------------------------------------------------
(* Queries.  p is the reading request; 0 reads the committed rows only. *)

Visible(p, rows) == {r \in rows : r.tx \in {0, p}}

MaxBy(rows) == CHOOSE r \in rows : \A o \in rows : o.id <= r.id

get_domain_by_fullname(p, pair) ==
    {d \in Visible(p, domains) : d.pair = pair}

get_topic_by_name(p, topic_name) ==
    {t \in Visible(p, topics) : t.name = topic_name}

\* Lines 198-201: what stands for the EntityNotFoundException that
\* get_latest_topic_of_domain raises, no topic id being negative.
EntityNotFound == -1

\* The id of the latest topic of the domain of `pair`, 0 (None) when it has
\* none; EntityNotFoundException is raised when the reader sees no Domain.
get_latest_topic_of_domain(p, pair) ==
    LET ds == get_domain_by_fullname(p, pair)
        ts == {t \in Visible(p, topics) : \E d \in ds : t.domain_id = d.id}
    IN  IF ds = {} THEN EntityNotFound
        ELSE IF ts = {} THEN 0 ELSE MaxBy(ts).id

\* Mutant: include_disabled is taken as True.
get_schemas_by_topic_name_with_disabled(p, topic_name) ==
    {s \in Visible(p, schemas) :
        \E t \in get_topic_by_name(p, topic_name) : s.topic_id = t.id}

get_schemas_by_topic_name(p, topic_name) ==
    {s \in Visible(p, schemas) :
        /\ \E t \in get_topic_by_name(p, topic_name) : s.topic_id = t.id
        /\ s.status # DISABLED}

\* Mutant: the loop over the enabled schemas never returns False.
is_schema_compatible_in_topic_unchecked(p, target_schema, topic_name) ==
    \A enabled_schema \in get_schemas_by_topic_name(p, topic_name) : TRUE

is_schema_compatible_in_topic(p, target_schema, topic_name) ==
    \A enabled_schema \in get_schemas_by_topic_name(p, topic_name) :
        is_full_compatible(enabled_schema.avro_schema_json, target_schema)

MinBy(rows) == CHOOSE r \in rows : \A o \in rows : r.id <= o.id

\* Mutant: ordered by id ascending, so the oldest enabled schema is returned.
get_oldest_schema_by_topic_id(p, topic_id) ==
    LET ss == {s \in Visible(p, schemas) :
                  s.topic_id = topic_id /\ s.status # DISABLED}
    IN  IF ss = {} THEN {} ELSE {MinBy(ss)}

\* Mutant: the status filter is left out of the query.
get_latest_schema_of_any_status(p, topic_id) ==
    LET ss == {s \in Visible(p, schemas) : s.topic_id = topic_id}
    IN  IF ss = {} THEN {} ELSE {MaxBy(ss)}

\* The latest enabled schema of the topic, as a set of at most one row.
get_latest_schema_by_topic_id(p, topic_id) ==
    LET ss == {s \in Visible(p, schemas) :
                  s.topic_id = topic_id /\ s.status # DISABLED}
    IN  IF ss = {} THEN {} ELSE {MaxBy(ss)}

\* Lines 324-341: the same query after the topic is looked up by its name;
\* an unknown name raises EntityNotFoundException.
get_latest_schema_by_topic_name(p, topic_name) ==
    LET ts == get_topic_by_name(p, topic_name)
        ss == {s \in Visible(p, schemas) :
                  /\ \E t \in ts : s.topic_id = t.id
                  /\ s.status # DISABLED}
    IN  IF ts = {} THEN {Raised("EntityNotFoundException")}
        ELSE IF ss = {} THEN {} ELSE {MaxBy(ss)}

TopicName(id) == CHOOSE n \in {t.name : t \in {t \in topics : t.id = id}} : TRUE

\* What a query answers when it returns a boolean.
Answered(b) == [kind |-> "bool", value |-> b]

\* Lines 344-353: True when the domain has no topic, else the compatibility
\* with its latest topic; the exception of get_latest_topic_of_domain is not
\* caught.
is_schema_compatible(p, target_schema, pair) ==
    LET latest == get_latest_topic_of_domain(p, pair)
    IN  IF latest = EntityNotFound
        THEN Raised("EntityNotFoundException")
        ELSE IF latest = 0
        THEN Answered(TRUE)
        ELSE Answered(is_schema_compatible_in_topic(
                          p, target_schema, TopicName(latest)))

\* uuid4 gives a name no topic has: the topic id stands for the hex suffix.
_construct_topic_name(pair, n) == <<pair, n>>

----------------------------------------------------------------------------
(* The state after construction: an empty store, no request running. *)

Init ==
    /\ domains = {}
    /\ topics = {}
    /\ schemas = {}
    /\ elements = {}
    /\ nextId = [domain |-> 1, topic |-> 1, schema |-> 1]
    /\ pc = [p \in Procs |-> "idle"]
    /\ args = [p \in Procs |-> DefaultArgs]
    /\ domain = [p \in Procs |-> 0]
    /\ topic = [p \in Procs |-> 0]
    /\ ret = [p \in Procs |-> NoRet]
    /\ lost = [p \in Procs |-> FALSE]
    /\ calls = 0
    /\ marks = 0
    /\ hist = <<>>
    /\ src_schema = NoSchema
    /\ record_json = Unset

Active(p) == pc[p] # "idle"

store == <<domains, topics, schemas, elements, nextId>>
locals == <<args, domain, topic, ret, lost>>
converter == <<src_schema, record_json>>

----------------------------------------------------------------------------
(* create_avro_schema_from_avro_json, one action per step *)

\* A request arrives with its arguments; its transaction begins.
BeginCall(p, max, A) ==
    /\ ~Active(p)
    /\ calls < max
    /\ \E a \in A : args' = [args EXCEPT ![p] = a]
    /\ pc' = [pc EXCEPT ![p] = "verify"]
    /\ UNCHANGED <<domain, topic, ret, lost>>
    /\ calls' = calls + 1
    /\ UNCHANGED <<store, marks, hist, converter>>

Begin(p) == BeginCall(p, MaxCalls, ConcArgs)

\* Mutant: the schema is verified after the Domain is fetched or created.
verify_after_domain(p) ==
    /\ pc[p] = "verify"
    /\ LET ds == get_domain_by_fullname(p, args[p].pair)
       IN  /\ domain' = [domain EXCEPT ![p] =
                  IF ds = {} THEN 0 ELSE (CHOOSE d \in ds : TRUE).id]
           /\ IF ~verify_avro_schema(args[p].avro_schema_json)
              THEN /\ ret' = [ret EXCEPT ![p] = Raised("ValueError")]
                   /\ pc' = [pc EXCEPT ![p] = "raised"]
              ELSE /\ pc' = [pc EXCEPT ![p] =
                         IF ds = {} THEN "create_domain" ELSE "get_topic"]
                   /\ UNCHANGED ret
    /\ UNCHANGED <<store, args, topic, lost, calls, marks, hist, converter>>

\* Lines 96-99: an invalid schema raises ValueError before any store call.
verify(p) ==
    /\ pc[p] = "verify"
    /\ IF ~verify_avro_schema(args[p].avro_schema_json)
       THEN /\ ret' = [ret EXCEPT ![p] = Raised("ValueError")]
            /\ pc' = [pc EXCEPT ![p] = "raised"]
       ELSE /\ pc' = [pc EXCEPT ![p] = "get_domain"]
            /\ UNCHANGED ret
    /\ UNCHANGED <<store, args, domain, topic, lost, calls, marks, hist, converter>>

\* Lines 138-147: the query of _get_domain_or_create.
_get_domain_or_create(p) ==
    /\ pc[p] = "get_domain"
    /\ LET ds == get_domain_by_fullname(p, args[p].pair)
       IN  IF ds = {}
           THEN /\ pc' = [pc EXCEPT ![p] = "create_domain"]
                /\ UNCHANGED domain
           ELSE /\ domain' = [domain EXCEPT ![p] = (CHOOSE d \in ds : TRUE).id]
                /\ pc' = [pc EXCEPT ![p] = "get_topic"]
    /\ UNCHANGED <<store, args, topic, ret, lost, calls, marks, hist, converter>>

\* The unique index on Domain(namespace, source): an insert waits for an
\* uncommitted row of the same pair, and fails on a committed one.
DomainInsertWaits(p, pair) ==
    \E d \in domains : d.pair = pair /\ d.tx \notin {0, p}
DomainInsertFails(p, pair) ==
    \E d \in domains : d.pair = pair /\ d.tx \in {0, p}

\* Mutant: the IntegrityError of a duplicate Domain is not caught.
_create_domain_no_recovery(p) ==
    /\ pc[p] = "create_domain"
    /\ ~DomainInsertWaits(p, args[p].pair)
    /\ IF DomainInsertFails(p, args[p].pair)
       THEN /\ ret' = [ret EXCEPT ![p] = Raised("IntegrityError")]
            /\ lost' = [lost EXCEPT ![p] = TRUE]
            /\ pc' = [pc EXCEPT ![p] = "raised"]
            /\ UNCHANGED <<domains, nextId, domain>>
       ELSE /\ domains' = domains \cup
                  {[id |-> nextId.domain, pair |-> args[p].pair, tx |-> p]}
            /\ nextId' = [nextId EXCEPT !.domain = @ + 1]
            /\ domain' = [domain EXCEPT ![p] = nextId.domain]
            /\ pc' = [pc EXCEPT ![p] = "get_topic"]
            /\ UNCHANGED <<lost, ret>>
    /\ UNCHANGED <<topics, schemas, elements, args, topic,
                   calls, marks, hist, converter>>

\* Lines 150-167: insert the Domain under a savepoint; on IntegrityError the
\* savepoint is rolled back and the existing Domain is fetched.
_create_domain_if_not_exist(p) ==
    /\ pc[p] = "create_domain"
    /\ ~DomainInsertWaits(p, args[p].pair)
    /\ IF DomainInsertFails(p, args[p].pair)
       THEN /\ domain' = [domain EXCEPT ![p] =
                  (CHOOSE d \in get_domain_by_fullname(p, args[p].pair) : TRUE).id]
            /\ lost' = [lost EXCEPT ![p] = TRUE]
            /\ UNCHANGED <<domains, nextId>>
       ELSE /\ domains' = domains \cup
                  {[id |-> nextId.domain, pair |-> args[p].pair, tx |-> p]}
            /\ nextId' = [nextId EXCEPT !.domain = @ + 1]
            /\ domain' = [domain EXCEPT ![p] = nextId.domain]
            /\ UNCHANGED lost
    /\ pc' = [pc EXCEPT ![p] = "get_topic"]
    /\ UNCHANGED <<topics, schemas, elements, args, topic, ret,
                   calls, marks, hist, converter>>

\* Lines 170-175 and 104-106: _lock_domain builds its SELECT ... FOR UPDATE
\* and never runs it, so no lock is taken; then the latest topic is fetched.
_lock_domain(p) == TRUE

get_topic(p) ==
    /\ pc[p] = "get_topic"
    /\ _lock_domain(p)
    /\ topic' = [topic EXCEPT ![p] = get_latest_topic_of_domain(p, args[p].pair)]
    /\ pc' = [pc EXCEPT ![p] = "check"]
    /\ UNCHANGED <<store, args, domain, ret, lost, calls, marks, hist, converter>>

\* Lines 178-190: neither query of _lock_topic_and_schemas is run.
_lock_topic_and_schemas(p) == TRUE

\* Mutant: the `not` of line 112 is dropped, a compatible schema rolls over.
check_inverted(p) ==
    /\ pc[p] = "check"
    /\ _lock_topic_and_schemas(p)
    /\ IF topic[p] = 0 \/ is_schema_compatible_in_topic(
              p, args[p].avro_schema_json, TopicName(topic[p]))
       THEN pc' = [pc EXCEPT ![p] = "create_topic"]
       ELSE pc' = [pc EXCEPT ![p] = "dedup"]
    /\ UNCHANGED <<store, locals, calls, marks, hist, converter>>

\* Lines 110-115: the compatibility decision.
check(p) ==
    /\ pc[p] = "check"
    /\ _lock_topic_and_schemas(p)
    /\ IF topic[p] = 0 \/ ~is_schema_compatible_in_topic(
              p, args[p].avro_schema_json, TopicName(topic[p]))
       THEN pc' = [pc EXCEPT ![p] = "create_topic"]
       ELSE pc' = [pc EXCEPT ![p] = "dedup"]
    /\ UNCHANGED <<store, locals, calls, marks, hist, converter>>

\* Mutant: the new Topic is created and the target stays the old topic.
_create_topic_keeps_target(p) ==
    /\ pc[p] = "create_topic"
    /\ topics' = topics \cup
          {[id |-> nextId.topic,
            name |-> _construct_topic_name(args[p].pair, nextId.topic),
            domain_id |-> domain[p], tx |-> p]}
    /\ nextId' = [nextId EXCEPT !.topic = @ + 1]
    /\ pc' = [pc EXCEPT ![p] = "dedup"]
    /\ UNCHANGED <<domains, schemas, elements, args, domain, topic, ret, lost,
                   calls, marks, hist, converter>>

\* Lines 119-120 and 229-237.
_create_topic(p) ==
    /\ pc[p] = "create_topic"
    /\ topics' = topics \cup
          {[id |-> nextId.topic,
            name |-> _construct_topic_name(args[p].pair, nextId.topic),
            domain_id |-> domain[p], tx |-> p]}
    /\ nextId' = [nextId EXCEPT !.topic = @ + 1]
    /\ topic' = [topic EXCEPT ![p] = nextId.topic]
    /\ pc' = [pc EXCEPT ![p] = "dedup"]
    /\ UNCHANGED <<domains, schemas, elements, args, domain, ret, lost,
                   calls, marks, hist, converter>>

\* Mutant: the base_schema_id is not compared.
IsSameJson(latest_schema, a) ==
    latest_schema.avro_schema_json = a.avro_schema_json

\* Lines 122-127: return the latest enabled schema of the target topic when
\* its json and base_schema_id are the caller's.
IsSame(latest_schema, a) ==
    /\ latest_schema.avro_schema_json = a.avro_schema_json
    /\ latest_schema.base_schema_id = a.base_schema_id

dedup(p) ==
    /\ pc[p] = "dedup"
    /\ LET latest == get_latest_schema_by_topic_id(p, topic[p])
       IN  IF \E l \in latest : IsSame(l, args[p])
           THEN /\ ret' = [ret EXCEPT ![p] =
                      Returned((CHOOSE l \in latest : TRUE).id)]
                /\ pc' = [pc EXCEPT ![p] = "returned"]
           ELSE /\ pc' = [pc EXCEPT ![p] = "create_schema"]
                /\ UNCHANGED ret
    /\ UNCHANGED <<store, args, domain, topic, lost, calls, marks, hist, converter>>

\* Mutant: line 290 commits the session where the code flushes it.
_create_avro_schema_commits(p) ==
    /\ pc[p] = "create_schema"
    /\ IF MissingDoc(args[p].avro_schema_json)
       THEN /\ ret' = [ret EXCEPT ![p] = Raised("MissingDocException")]
            /\ pc' = [pc EXCEPT ![p] = "raised"]
            /\ UNCHANGED <<schemas, nextId>>
       ELSE /\ schemas' = schemas \cup
                  {[id |-> nextId.schema, topic_id |-> topic[p],
                    avro_schema_json |-> args[p].avro_schema_json,
                    status |-> args[p].status,
                    base_schema_id |-> args[p].base_schema_id, tx |-> 0]}
            /\ nextId' = [nextId EXCEPT !.schema = @ + 1]
            /\ ret' = [ret EXCEPT ![p] = Returned(nextId.schema)]
            /\ pc' = [pc EXCEPT ![p] = "add_elements"]
    /\ UNCHANGED <<domains, topics, elements, args, domain, topic, lost,
                   calls, marks, hist, converter>>

\* Lines 263-290: the doc check, then the AvroSchema row is added and flushed.
_create_avro_schema(p) ==
    /\ pc[p] = "create_schema"
    /\ IF MissingDoc(args[p].avro_schema_json)
       THEN /\ ret' = [ret EXCEPT ![p] = Raised("MissingDocException")]
            /\ pc' = [pc EXCEPT ![p] = "raised"]
            /\ UNCHANGED <<schemas, nextId>>
       ELSE /\ schemas' = schemas \cup
                  {[id |-> nextId.schema, topic_id |-> topic[p],
                    avro_schema_json |-> args[p].avro_schema_json,
                    status |-> args[p].status,
                    base_schema_id |-> args[p].base_schema_id, tx |-> p]}
            /\ nextId' = [nextId EXCEPT !.schema = @ + 1]
            /\ ret' = [ret EXCEPT ![p] = Returned(nextId.schema)]
            /\ pc' = [pc EXCEPT ![p] = "add_elements"]
    /\ UNCHANGED <<domains, topics, elements, args, domain, topic, lost,
                   calls, marks, hist, converter>>

\* Lines 292-297: the elements are added and flushed, the schema returned.
add_elements(p) ==
    /\ pc[p] = "add_elements"
    /\ elements' = elements \cup
          {[avro_schema_id |-> ret[p].id, element_type |-> e.element_type,
            key |-> e.key, doc |-> e.doc, tx |-> p] :
              e \in create_schema_elements_from_json(args[p].avro_schema_json)}
    /\ pc' = [pc EXCEPT ![p] = "returned"]
    /\ UNCHANGED <<domains, topics, schemas, nextId, locals, calls, marks, hist, converter>>

----------------------------------------------------------------------------
(* The ambient transaction of a request *)

CommitRows(p, rows) == {IF r.tx = p THEN [r EXCEPT !.tx = 0] ELSE r : r \in rows}
RollbackRows(p, rows) == {r \in rows : r.tx # p}

RowsOf(p) ==
    [domains |-> {r \in domains : r.tx = p},
     topics |-> {r \in topics : r.tx = p},
     schemas |-> {r \in schemas : r.tx = p},
     elements |-> {r \in elements : r.tx = p}]

NoRows == [domains |-> {}, topics |-> {}, schemas |-> {}, elements |-> {}]

\* What a finished call leaves in the history.
Entry(p) ==
    [kind |-> "register", args |-> args[p], ret |-> ret[p], rows |-> RowsOf(p)]

\* The request is over: its frame is gone.
EndCall(p) ==
    /\ pc' = [pc EXCEPT ![p] = "idle"]
    /\ args' = [args EXCEPT ![p] = DefaultArgs]
    /\ domain' = [domain EXCEPT ![p] = 0]
    /\ topic' = [topic EXCEPT ![p] = 0]
    /\ ret' = [ret EXCEPT ![p] = NoRet]
    /\ lost' = [lost EXCEPT ![p] = FALSE]

\* The call returned: the transaction commits.
CommitTx(p) ==
    /\ pc[p] = "returned"
    /\ domains' = CommitRows(p, domains)
    /\ topics' = CommitRows(p, topics)
    /\ schemas' = CommitRows(p, schemas)
    /\ elements' = CommitRows(p, elements)
    /\ EndCall(p)
    /\ UNCHANGED <<nextId, calls, marks, converter>>

\* The call raised: the transaction is rolled back.
RollbackTx(p) ==
    /\ pc[p] = "raised"
    /\ domains' = RollbackRows(p, domains)
    /\ topics' = RollbackRows(p, topics)
    /\ schemas' = RollbackRows(p, schemas)
    /\ elements' = RollbackRows(p, elements)
    /\ EndCall(p)
    /\ UNCHANGED <<nextId, calls, marks, converter>>

Commit(p) == CommitTx(p) /\ UNCHANGED hist
Rollback(p) == RollbackTx(p) /\ UNCHANGED hist

----------------------------------------------------------------------------
(* Status updates *)

\* Lines 401-409: UPDATE avro_schema SET status WHERE id = schema_id.
_update_schema_status(schema_id, status) ==
    {IF s.id = schema_id /\ s.tx = 0 THEN [s EXCEPT !.status = status] ELSE s :
        s \in schemas}

UpdateStatus(schema_id, status) ==
    /\ marks < MaxMarks
    /\ \E s \in schemas : s.id = schema_id /\ s.tx = 0
    /\ schemas' = _update_schema_status(schema_id, status)
    /\ marks' = marks + 1
    /\ UNCHANGED <<domains, topics, elements, nextId, pc, locals, calls, converter>>

MarkEntry(schema_id, status) ==
    [kind |-> "mark", args |-> [schema_id |-> schema_id, status |-> status],
     ret |-> NoRet, rows |-> NoRows]

mark_schema_disabled(schema_id) ==
    UpdateStatus(schema_id, DISABLED) /\ UNCHANGED hist

mark_schema_readonly(schema_id) ==
    UpdateStatus(schema_id, READ_ONLY) /\ UNCHANGED hist

SchemaIds == {s.id : s \in schemas}

----------------------------------------------------------------------------
(* Concurrent requests *)

Next ==
    \/ \E p \in Procs :
        \/ Begin(p)
        \/ verify(p)
        \/ _get_domain_or_create(p)
        \/ _create_domain_if_not_exist(p)
        \/ get_topic(p)
        \/ check(p)
        \/ _create_topic(p)
        \/ dedup(p)
        \/ _create_avro_schema(p)
        \/ add_elements(p)
        \/ Commit(p)
        \/ Rollback(p)
    \/ \E id \in SchemaIds :
        \/ mark_schema_disabled(id)
        \/ mark_schema_readonly(id)

Spec == Init /\ [][Next]_vars

----------------------------------------------------------------------------
(* One request at a time: every operation runs from its first step to its   *)
(* commit before the next one starts, and is appended to hist.              *)

SeqBegin(p) == (\A q \in Procs : ~Active(q)) /\ BeginCall(p, MaxSeqCalls, SeqArgs)

SeqCommit(p) == CommitTx(p) /\ hist' = Append(hist, Entry(p))
SeqRollback(p) == RollbackTx(p) /\ hist' = Append(hist, Entry(p))

seq_mark_schema_disabled(schema_id) ==
    /\ \A q \in Procs : ~Active(q)
    /\ UpdateStatus(schema_id, DISABLED)
    /\ hist' = Append(hist, MarkEntry(schema_id, DISABLED))

seq_mark_schema_readonly(schema_id) ==
    /\ \A q \in Procs : ~Active(q)
    /\ UpdateStatus(schema_id, READ_ONLY)
    /\ hist' = Append(hist, MarkEntry(schema_id, READ_ONLY))

SeqNext ==
    \/ \E p \in SeqProcs :
        \/ SeqBegin(p)
        \/ verify(p)
        \/ _get_domain_or_create(p)
        \/ _create_domain_if_not_exist(p)
        \/ get_topic(p)
        \/ check(p)
        \/ _create_topic(p)
        \/ dedup(p)
        \/ _create_avro_schema(p)
        \/ add_elements(p)
        \/ SeqCommit(p)
        \/ SeqRollback(p)
    \/ \E id \in SchemaIds :
        \/ seq_mark_schema_disabled(id)
        \/ seq_mark_schema_readonly(id)

SeqSpec == Init /\ [][SeqNext]_vars

----------------------------------------------------------------------------
(* The converter on its own: convert is called once on any input. *)

ConvInit ==
    /\ domains = {}
    /\ topics = {}
    /\ schemas = {}
    /\ elements = {}
    /\ nextId = [domain |-> 1, topic |-> 1, schema |-> 1]
    /\ pc = [p \in Procs |-> "idle"]
    /\ args = [p \in Procs |-> DefaultArgs]
    /\ domain = [p \in Procs |-> 0]
    /\ topic = [p \in Procs |-> 0]
    /\ ret = [p \in Procs |-> NoRet]
    /\ lost = [p \in Procs |-> FALSE]
    /\ calls = 0
    /\ marks = 0
    /\ hist = <<>>
    /\ src_schema \in SrcSchemas
    /\ record_json = Unset

\* Lines 29-39: RedshiftToAvroConverter.convert(src_schema).
ConvertCall ==
    /\ record_json = Unset
    /\ record_json' = convert(src_schema)
    /\ UNCHANGED <<store, pc, locals, calls, marks, hist, src_schema>>

ConvNext == ConvertCall

ConvSpec == ConvInit /\ [][ConvNext]_vars

----------------------------------------------------------------------------
(* Claims *)

Committed(rows) == Visible(0, rows)

\* C1: every two enabled schemas of one topic are fully compatible.
C1_EnabledSchemasPairwiseCompatible ==
    \A s1 \in Committed(schemas) : \A s2 \in Committed(schemas) :
        (/\ s1.topic_id = s2.topic_id
         /\ s1.status # DISABLED
         /\ s2.status # DISABLED)
        => is_full_compatible(s1.avro_schema_json, s2.avro_schema_json)

\* A request that has run _lock_domain and whose transaction has not ended.
PastLockDomain(p) ==
    \/ pc[p] \in {"check", "create_topic", "dedup", "create_schema",
                  "add_elements", "returned"}
    \/ pc[p] = "raised" /\ ret[p].kind = "MissingDocException"

\* C2: while a request is past its lock-domain step and before the end of its
\* transaction, no other request on the same domain takes its fetch-latest-topic,
\* compatibility-check, create-topic, dedup or insert step.
C2_DomainLockSerializes ==
    [][\A p \in Procs : \A q \in Procs \ {p} :
          (/\ PastLockDomain(p)
           /\ domain[q] = domain[p]
           /\ pc[q] \in {"get_topic", "check", "create_topic", "dedup",
                         "create_schema", "add_elements"})
          => pc'[q] = pc[q]]_vars

\* C3: two register calls with the same arguments (a status that is not
\* Disabled, no status update made) that have both returned before either
\* commits return the same schema id, so that one row is inserted for both.
C3_ConcurrentIdenticalRegistersDedup ==
    \A p \in Procs : \A q \in Procs \ {p} :
        (/\ pc[p] = "returned" /\ pc[q] = "returned"
         /\ args[p] = args[q]
         /\ args[p].status # DISABLED
         /\ marks = 0
         /\ ret[p].kind = "schema" /\ ret[q].kind = "schema")
        => ret[p].id = ret[q].id

\* The enabled schemas of a topic with their statuses, as readers see them.
EnabledOf(rows, topic_id) ==
    {<<s.id, s.status>> :
        s \in {r \in Committed(rows) : r.topic_id = topic_id /\ r.status # DISABLED}}

\* C4: from the lock of the current topic and its schemas until the request
\* inserts its schema, the enabled schemas of that topic and their statuses
\* do not change.
C4_EnabledSetStableUnderTopicLock ==
    [][\A p \in Procs :
          (/\ pc[p] \in {"check", "create_topic", "dedup", "create_schema"}
           /\ pc'[p] \in {"check", "create_topic", "dedup", "create_schema"}
           /\ topic[p] # 0)
          => EnabledOf(schemas', topic[p]) = EnabledOf(schemas, topic[p])]_vars

\* Two register calls in a row with the same arguments, the first returning
\* a schema.
SameCallTwice(i) ==
    /\ i + 1 <= Len(hist)
    /\ hist[i].kind = "register" /\ hist[i + 1].kind = "register"
    /\ hist[i].args = hist[i + 1].args
    /\ hist[i].ret.kind = "schema"

SecondCallDedups(i) ==
    /\ hist[i + 1].ret = hist[i].ret
    /\ hist[i + 1].rows = NoRows

\* C5 as stated: for every status, the second of two identical register calls
\* in a row returns the id of the first and inserts nothing.
C5_DedupIdempotentEveryStatus ==
    \A i \in 1..Len(hist) : SameCallTwice(i) => SecondCallDedups(i)

\* C5 as amended: for every status other than Disabled, the second of two
\* identical register calls in a row returns the id of the first and inserts
\* no domain, topic, schema or schema element.
C5_DedupIdempotentEnabledStatus ==
    \A i \in 1..Len(hist) :
        (SameCallTwice(i) /\ hist[i].args.status # DISABLED)
        => SecondCallDedups(i)

C5_Witness ==
    \E i \in 1..Len(hist) :
        /\ SameCallTwice(i)
        /\ hist[i].args.status = READ_ONLY
        /\ hist[i].rows.schemas # {}
        /\ SecondCallDedups(i)

\* register(J1) then register(J2) in a row on one domain, J2 not fully
\* compatible with J1, J1 registered enabled.
IncompatiblePair(i) ==
    /\ i + 1 <= Len(hist)
    /\ hist[i].kind = "register" /\ hist[i + 1].kind = "register"
    /\ hist[i].ret.kind = "schema" /\ hist[i + 1].ret.kind = "schema"
    /\ hist[i].args.pair = hist[i + 1].args.pair
    /\ hist[i].args.status # DISABLED
    /\ ~is_full_compatible(hist[i].args.avro_schema_json,
                           hist[i + 1].args.avro_schema_json)

ThirdCallRepeats(i) ==
    /\ i + 2 <= Len(hist)
    /\ hist[i + 2].kind = "register"
    /\ hist[i + 2].args = hist[i + 1].args
    /\ hist[i + 1].args.status # DISABLED

\* C6: register(J1); register(J2) with J2 not fully compatible with J1 creates
\* exactly one topic in the second call, and a third register(J2) creates no
\* topic and no schema (the calls registering enabled schemas).
C6_RolloverMinimality ==
    \A i \in 1..Len(hist) :
        IncompatiblePair(i) =>
            /\ Cardinality(hist[i + 1].rows.topics) = 1
            /\ ThirdCallRepeats(i) =>
                  /\ hist[i + 2].rows = NoRows
                  /\ hist[i + 2].ret = hist[i + 1].ret

C6_Witness ==
    \E i \in 1..Len(hist) :
        /\ IncompatiblePair(i)
        /\ ThirdCallRepeats(i)
        /\ Cardinality(hist[i + 1].rows.topics) = 1
        /\ hist[i + 2].rows = NoRows

\* C7: a register call that fails with MissingDoc has inserted no Domain,
\* Topic, AvroSchema or AvroSchemaElement row.
C7_MissingDocInsertsNothing ==
    \A p \in Procs :
        ret[p].kind = "MissingDocException" => RowsOf(p) = NoRows

\* C8: a register call that fails Avro validation has looked up or created
\* no domain, fetched no topic and inserted no row.
C8_InvalidSchemaBeforeStore ==
    \A p \in Procs :
        ret[p].kind = "ValueError" =>
            /\ domain[p] = 0
            /\ topic[p] = 0
            /\ ~lost[p]
            /\ RowsOf(p) = NoRows

C8_Witness ==
    \E p \in Procs :
        /\ pc[p] = "raised"
        /\ ret[p].kind = "ValueError"
        /\ get_domain_by_fullname(p, args[p].pair) # {}

\* The committed Domain of the request's pair.
HasDomainOfPair(p) ==
    \E d \in Committed(domains) : d.id = domain[p] /\ d.pair = args[p].pair

\* The schema the request returns, in a topic of the committed Domain of its
\* pair.
ReturnedSchemaOfPair(p) ==
    \E s \in Visible(p, schemas) : \E t \in Visible(p, topics) :
        \E d \in Committed(domains) :
            /\ s.id = ret[p].id
            /\ s.avro_schema_json = args[p].avro_schema_json
            /\ s.topic_id = t.id
            /\ t.domain_id = d.id
            /\ d.pair = args[p].pair

\* C9: there is at most one Domain for each (namespace, source), and a call
\* that lost the insert race goes on with the Domain the other call created
\* and registers its schema.
C9_OneDomainPerPair ==
    /\ \A d1 \in domains : \A d2 \in domains : d1.pair = d2.pair => d1 = d2
    /\ \A p \in Procs :
          lost[p] =>
              /\ HasDomainOfPair(p)
              /\ ret[p].kind \in {"none", "schema", "MissingDocException"}
              /\ pc[p] = "raised" => MissingDoc(args[p].avro_schema_json)
              /\ pc[p] = "returned" => ReturnedSchemaOfPair(p)

C9_Witness ==
    \E p \in Procs :
        /\ lost[p]
        /\ pc[p] = "returned"
        /\ ret[p].kind = "schema"
        /\ ReturnedSchemaOfPair(p)

\* C10: a committed schema row is never deleted, a Disabled schema stays
\* Disabled and a ReadOnly schema never becomes ReadAndWrite.
C10_StatusOnlyMovesForward ==
    [][\A s \in Committed(schemas) :
          \E n \in schemas' :
              /\ n.id = s.id
              /\ s.status = DISABLED => n.status = DISABLED
              /\ s.status = READ_ONLY => n.status \in {READ_ONLY, DISABLED}]_vars

----------------------------------------------------------------------------
(* C11 *)

\* What the latest-schema query must answer for topic t over the rows a
\* reader sees: nothing when every schema of t is Disabled, else one row of t
\* that is not Disabled and has the greatest id among those.
IsLatestEnabledOf(result, rows, topic_id) ==
    IF \A s \in rows : s.topic_id = topic_id => s.status = DISABLED
    THEN result = {}
    ELSE /\ Cardinality(result) = 1
         /\ \A r \in result :
               /\ r \in rows
               /\ r.topic_id = topic_id
               /\ r.status \in {READ_AND_WRITE, READ_ONLY}
               /\ \A s \in rows :
                     s.topic_id = topic_id /\ s.status # DISABLED
                        => s.id <= r.id

\* Both queries answer the latest enabled schema of every topic.
LatestSchemaIsGreatestEnabled ==
    \A t \in Committed(topics) :
        /\ IsLatestEnabledOf(get_latest_schema_by_topic_id(0, t.id),
                             Committed(schemas), t.id)
        /\ IsLatestEnabledOf(get_latest_schema_by_topic_name(0, t.name),
                             Committed(schemas), t.id)

\* C11: for every topic, by id and by name, latest_schema_of_topic answers
\* the schema of that topic with the greatest id among the schemas whose
\* status is not Disabled, and nothing when there is none; it never answers a
\* Disabled schema or a schema of another topic.  The answers depend on the
\* Topic and AvroSchema rows only, so they are checked in the initial state
\* and after every step that changes one of these rows.
C11_LatestSchemaIsGreatestEnabled ==
    /\ LatestSchemaIsGreatestEnabled
    /\ [][topics' # topics \/ schemas' # schemas
             => LatestSchemaIsGreatestEnabled']_vars

\* A topic whose schema of greatest id is Disabled and whose answer is
\* neither its first nor its last schema.
C11_Witness ==
    \E t \in Committed(topics) :
        \E r \in get_latest_schema_by_topic_id(0, t.id) :
            /\ \E s \in Committed(schemas) :
                  s.topic_id = t.id /\ s.status = DISABLED /\ s.id > r.id
            /\ \E s \in Committed(schemas) :
                  s.topic_id = t.id /\ s.status # DISABLED /\ s.id < r.id

----------------------------------------------------------------------------
(* C12 *)

\* A schema row without the transaction that wrote it.
Plain(s) ==
    [id |-> s.id, topic_id |-> s.topic_id,
     avro_schema_json |-> s.avro_schema_json, status |-> s.status,
     base_schema_id |-> s.base_schema_id]

SchemasOutside(rows, topic_id) ==
    {Plain(s) : s \in {r \in rows : r.topic_id # topic_id}}

\* The topic the running call of p has created, if it has rolled over.
CreatedTopic(p, rows) == {t \in rows : t.tx = p}

\* C12: in every step of a call that rolls over, from the creation of the new
\* topic to the commit, the schemas of every other topic, their statuses and
\* their latest enabled schema stay as they were, and the schema the call
\* returns is a row of the new topic.
C12_RolloverLeavesOldTopic ==
    [][\A p \in SeqProcs :
          \A n \in CreatedTopic(p, topics) \cup CreatedTopic(p, topics') :
              /\ SchemasOutside(schemas', n.id) = SchemasOutside(schemas, n.id)
              /\ \A t \in Committed(topics) :
                    {Plain(s) : s \in get_latest_schema_by_topic_id(0, t.id)'}
                      = {Plain(s) : s \in get_latest_schema_by_topic_id(0, t.id)}
              /\ pc[p] = "returned" =>
                    \E s \in schemas :
                        s.tx = p /\ s.id = ret[p].id /\ s.topic_id = n.id
      ]_vars

\* A call that has rolled over from a topic holding an enabled schema and has
\* inserted its schema in the new topic.
C12_Witness ==
    \E p \in SeqProcs :
        /\ pc[p] = "returned"
        /\ \E n \in CreatedTopic(p, topics) :
              /\ \E s \in schemas : s.tx = p /\ s.topic_id = n.id
              /\ \E t \in Committed(topics) :
                    /\ t.domain_id = n.domain_id
                    /\ get_latest_schema_by_topic_id(0, t.id) # {}

----------------------------------------------------------------------------
(* C13 *)

\* The call of p is of the append case, judged on the committed store: J is
\* documented, the domain has a current topic, J is fully compatible with
\* every enabled schema of it and is not its latest enabled schema.
AppendCase(p) ==
    LET J == args[p].avro_schema_json
        cur == get_latest_topic_of_domain(0, args[p].pair)
    IN  /\ Active(p)
        /\ verify_avro_schema(J) /\ ~MissingDoc(J)
        /\ cur > 0
        /\ \A e \in Committed(schemas) :
              e.topic_id = cur /\ e.status # DISABLED
                 => is_full_compatible(e.avro_schema_json, J)
        /\ \A l \in get_latest_schema_by_topic_id(0, cur) : ~IsSame(l, args[p])

\* C13: a call of the append case creates no topic, goes from the check to
\* the insert, and inserts one schema in the current topic with an id greater
\* than that of every schema already in the topic; that row is the one
\* returned and committed.
C13_CompatibleAppends ==
    [][\A p \in SeqProcs :
          AppendCase(p) =>
              LET cur == get_latest_topic_of_domain(0, args[p].pair)
              IN  /\ CreatedTopic(p, topics') = {}
                  /\ pc[p] = "check" => pc'[p] = "dedup"
                  /\ pc[p] = "dedup" => pc'[p] = "create_schema"
                  /\ pc[p] = "create_schema" =>
                        \E n \in schemas' :
                            /\ n \notin schemas
                            /\ schemas' = schemas \cup {n}
                            /\ n.topic_id = cur
                            /\ ret'[p] = Returned(n.id)
                            /\ \A s \in schemas :
                                  s.topic_id = cur => s.id < n.id
                  /\ pc[p] = "returned" =>
                        \E s \in Committed(schemas') :
                            /\ s.id = ret[p].id
                            /\ s.topic_id = cur
                            /\ s.avro_schema_json = args[p].avro_schema_json
      ]_vars

\* A call of the append case has inserted its schema in a topic that held
\* schemas already, one of them Disabled.
C13_Witness ==
    \E p \in SeqProcs :
        /\ AppendCase(p)
        /\ pc[p] = "returned"
        /\ \E s \in schemas :
              /\ s.tx = p
              /\ \E o \in Committed(schemas) :
                    o.topic_id = s.topic_id /\ o.status # DISABLED
              /\ \E o \in Committed(schemas) :
                    o.topic_id = s.topic_id /\ o.status = DISABLED

----------------------------------------------------------------------------
(* C14 *)

\* The elements of schema s among `rows`, without id and transaction.
ElementsOf(rows, s) ==
    {[element_type |-> e.element_type, key |-> e.key, doc |-> e.doc] :
        e \in {r \in rows : r.avro_schema_id = s.id}}

\* A reader sees a schema together with all its elements or not at all.
NoPartialSchema ==
    /\ \A s \in Committed(schemas) :
          ElementsOf(Committed(elements), s)
            = create_schema_elements_from_json(s.avro_schema_json)
    /\ \A e \in Committed(elements) :
          \E s \in Committed(schemas) : s.id = e.avro_schema_id

CommittedStore ==
    <<Committed(domains), Committed(topics), Committed(schemas),
      Committed(elements)>>

\* C14: a reader never sees a schema without all of its elements, nor an
\* element without its schema; no step of a registration before its commit
\* changes what readers see, and a registration that has failed leaves no row.
C14_NoPartiallyInsertedSchema ==
    [][/\ NoPartialSchema'
       /\ \A p \in Procs :
             pc'[p] # pc[p] /\ pc[p] # "returned" =>
                 /\ CommittedStore' = CommittedStore
                 /\ pc[p] = "raised" => RowsOf(p)' = NoRows
      ]_vars

\* A request has inserted its AvroSchema row and not yet its elements, while
\* another has failed after inserting rows, and readers see earlier schemas.
C14_Witness ==
    /\ Committed(schemas) # {}
    /\ \E p \in Procs :
          /\ pc[p] = "add_elements"
          /\ RowsOf(p).schemas # {} /\ RowsOf(p).elements = {}
    /\ \E p \in Procs : pc[p] = "raised" /\ RowsOf(p) # NoRows

----------------------------------------------------------------------------
(* C15 *)

\* C15: every SchemaElement row in the store whose element_type is record or
\* field has a non-empty doc, and so has every such element of the json of
\* every AvroSchema row in the store.
C15_StoredElementsHaveDoc ==
    /\ \A e \in elements :
          e.element_type \in {"record", "field"} => e.doc # ""
    /\ \A s \in schemas :
          \A o \in create_schema_elements_from_json(s.avro_schema_json) :
              o.element_type \in {"record", "field"} => o.doc # ""

\* Elements of both types are stored, and a schema with a field that has no
\* doc has been refused.
C15_Witness ==
    /\ \E e \in elements : e.element_type = "record"
    /\ \E e \in elements : e.element_type = "field"
    /\ \E p \in SeqProcs : ret[p] = Raised("MissingDocException")

----------------------------------------------------------------------------
(* C16 *)

\* The rows of the type mapping table: the Avro primitive and the extra
\* field metadata of a column of class cls.
TableRow(column) ==
    LET cls == column.type.cls
    IN  CASE cls \in {"RedshiftFloat4", "RedshiftReal"} -> <<"float", {}>>
          [] cls \in {"RedshiftFloat", "RedshiftDouble", "RedshiftFloat8"} ->
                <<"double", {}>>
          [] cls \in {"RedshiftInt2", "RedshiftInt4", "RedshiftSmallInt",
                      "RedshiftInteger"} -> <<"int", {}>>
          [] cls \in {"RedshiftInt8", "RedshiftBigInt"} -> <<"long", {}>>
          [] cls \in {"RedshiftNumeric", "RedshiftDecimal"} ->
                <<"double", {<<"fixed_pt", TRUE>>,
                             <<"precision", column.type.precision>>,
                             <<"scale", column.type.scale>>}>>
          [] cls \in {"RedshiftBool", "RedshiftBoolean"} -> <<"boolean", {}>>
          [] cls \in {"RedshiftChar", "RedshiftNChar", "RedshiftBPChar",
                      "RedshiftCharacter"} ->
                <<"string", {<<"fix_len", column.type.length>>}>>
          [] cls \in {"RedshiftVarChar", "RedshiftNVarChar",
                      "RedshiftCharacterVarying", "RedshiftText"} ->
                <<"string", {<<"max_len", column.type.length>>}>>
          [] cls = "RedshiftDate" -> <<"int", {<<"date", TRUE>>}>>
          [] cls = "RedshiftTime" -> <<"int", {<<"time", TRUE>>}>>
          [] cls = "RedshiftTimestamp" -> <<"long", {<<"timestamp", TRUE>>}>>

TableTypes == ConvertedTypes \cup {"RedshiftTime"}

\* The field is the one the table prescribes for the column.
HonorsTableRow(field, column) ==
    /\ field.kind = "field"
    /\ {field.type.branches[k] : k \in DOMAIN field.type.branches} \ {"null"}
          = {TableRow(column)[1]}
    /\ field.metadata
          = TableRow(column)[2] \cup
              (IF column.primary_key_order > 0
               THEN {<<"primary_key", column.primary_key_order>>} ELSE {})

\* C16: a table whose columns all carry a class of the type mapping table
\* converts to a record whose fields are those the table prescribes, and
\* UnsupportedType is raised only when some column carries another class.
C16_EveryTableRowConverts ==
    record_json # Unset /\ src_schema.kind = "SQLTable" =>
        LET columns == src_schema.columns
        IN  /\ (\A i \in DOMAIN columns : columns[i].type.cls \in TableTypes)
                  => /\ record_json.kind = "record"
                     /\ \A i \in DOMAIN columns :
                           HonorsTableRow(record_json.fields[i], columns[i])
            /\ record_json.kind = "UnsupportedTypeException"
                  => \E i \in DOMAIN columns :
                        columns[i].type.cls \notin TableTypes

\* The same for every class of the table but RedshiftTime.
C16_RowsOtherThanTime ==
    record_json # Unset /\ src_schema.kind = "SQLTable" =>
        LET columns == src_schema.columns
        IN  (\A i \in DOMAIN columns : columns[i].type.cls \in ConvertedTypes)
               => /\ record_json.kind = "record"
                  /\ \A i \in DOMAIN columns :
                        HonorsTableRow(record_json.fields[i], columns[i])

----------------------------------------------------------------------------
(* C17 *)

AvroPrimitives ==
    {"int", "long", "float", "double", "boolean", "string", "bytes"}

\* A union of two branches, one of them null and the other a primitive.
IsNullableUnion(type) ==
    /\ type.kind = "union"
    /\ Len(type.branches) = 2
    /\ \E k \in 1..2 :
          /\ type.branches[k] = "null"
          /\ type.branches[3 - k] \in AvroPrimitives

IsBarePrimitive(type) ==
    /\ type.kind = "primitive"
    /\ Len(type.branches) = 1
    /\ type.branches[1] \in AvroPrimitives

\* C17: in every converted table, the field of each column has has_default
\* true exactly when the column has a default value or is nullable, and its
\* type is a nullable union of two branches exactly when the column is
\* nullable and a bare primitive otherwise.
C17_HasDefaultAndNullableUnion ==
    record_json.kind = "record" =>
        \A i \in DOMAIN src_schema.columns :
            LET column == src_schema.columns[i]
                field == record_json.fields[i]
            IN  /\ field.has_default
                     <=> (column.default_value # None \/ column.is_nullable)
                /\ IsNullableUnion(field.type) <=> column.is_nullable
                /\ ~column.is_nullable => IsBarePrimitive(field.type)
                /\ ~column.is_nullable /\ column.default_value = None
                     => IsBarePrimitive(field.type) /\ ~field.has_default

\* A nullable column without a default value has been converted.
C17_Witness ==
    /\ record_json.kind = "record"
    /\ \E i \in DOMAIN src_schema.columns :
          /\ src_schema.columns[i].is_nullable
          /\ src_schema.columns[i].default_value = None
          /\ record_json.fields[i].has_default
          /\ record_json.fields[i].type.kind = "union"

----------------------------------------------------------------------------
(* C18 *)

\* S is fully compatible with every schema of the topic that is not Disabled.
CompatibleWithEnabled(S, topic_id) ==
    \A E \in Committed(schemas) :
        E.topic_id = topic_id /\ E.status \in {READ_AND_WRITE, READ_ONLY}
           => is_full_compatible(E.avro_schema_json, S)

\* is_schema_compatible_in_topic is the compatibility with the enabled schemas.
CompatibilityOverEnabledOnly ==
    \A t \in Committed(topics) :
        \A S \in DocumentedSchemas \cup {SchemaNoDoc} :
            is_schema_compatible_in_topic(0, S, t.name)
              <=> CompatibleWithEnabled(S, t.id)

\* A call that is about to roll over from a topic has found an enabled
\* schema of that topic that is not compatible with its schema.
RolloverOnlyFromIncompatible ==
    \A p \in SeqProcs :
        pc[p] = "create_topic" /\ topic[p] # 0 =>
            /\ ~CompatibleWithEnabled(args[p].avro_schema_json, topic[p])
            /\ \E E \in Committed(schemas) :
                  E.topic_id = topic[p] /\ E.status # DISABLED

\* C18: for every topic and every schema S, is_schema_compatible_in_topic is
\* true exactly when S is fully compatible with every schema of the topic
\* that is not Disabled, whatever the Disabled ones are; and a call rolls over
\* from its current topic only when an enabled schema of that topic is not
\* compatible with its schema, so never from a topic without enabled schema.
\* The first part depends on the Topic and AvroSchema rows only: it is checked
\* in the initial state and after every step that changes one of these rows.
C18_CompatibilityOverEnabledOnly ==
    /\ CompatibilityOverEnabledOnly
    /\ [][/\ topics' # topics \/ schemas' # schemas
                => CompatibilityOverEnabledOnly'
           /\ RolloverOnlyFromIncompatible'
         ]_vars

\* A call has passed the check and keeps its current topic, all of whose
\* schemas are Disabled and one of them incompatible with the call's schema.
C18_Witness ==
    \E p \in SeqProcs :
        /\ pc[p] = "dedup"
        /\ topic[p] # 0
        /\ CreatedTopic(p, topics) = {}
        /\ \A E \in Committed(schemas) :
              E.topic_id = topic[p] => E.status = DISABLED
        /\ \E E \in Committed(schemas) :
              /\ E.topic_id = topic[p]
              /\ ~is_full_compatible(E.avro_schema_json,
                                     args[p].avro_schema_json)

----------------------------------------------------------------------------
(* C19 *)

\* The enabled schema of greatest id of the target topic of p's call has the
\* call's json and base_schema_id.
LatestEnabledMatches(p) ==
    \E l \in schemas :
        /\ l.topic_id = topic[p] /\ l.status # DISABLED
        /\ \A s \in schemas :
              s.topic_id = topic[p] /\ s.status # DISABLED => s.id <= l.id
        /\ l.avro_schema_json = args[p].avro_schema_json
        /\ l.base_schema_id = args[p].base_schema_id

\* C19: at the dedup step, when the latest enabled schema of the target topic
\* has the call's json and base_schema_id the call returns that schema,
\* inserts nothing and changes no row; otherwise it goes on to the insert,
\* which adds exactly one schema, in the target topic, to the store.  A call
\* that returns has inserted one schema or none, and its commit changes no
\* field of a schema.
C19_DedupExactlyOnLatestEnabled ==
    [][\A p \in SeqProcs :
          /\ pc[p] = "dedup" /\ LatestEnabledMatches(p) =>
                /\ pc'[p] = "returned"
                /\ \E l \in schemas :
                      /\ ret'[p] = Returned(l.id)
                      /\ l.topic_id = topic[p] /\ l.status # DISABLED
                      /\ l.avro_schema_json = args[p].avro_schema_json
                      /\ l.base_schema_id = args[p].base_schema_id
                /\ UNCHANGED <<schemas, elements, topics>>
          /\ pc[p] = "dedup" /\ ~LatestEnabledMatches(p) =>
                /\ pc'[p] = "create_schema"
                /\ UNCHANGED <<schemas, elements, topics>>
          /\ pc[p] = "create_schema" /\ pc'[p] # "raised" =>
                \E n \in schemas' :
                    /\ n \notin schemas
                    /\ schemas' = schemas \cup {n}
                    /\ n.topic_id = topic[p]
                    /\ n.avro_schema_json = args[p].avro_schema_json
                    /\ n.base_schema_id = args[p].base_schema_id
                    /\ n.status = args[p].status
                    /\ ret'[p] = Returned(n.id)
          /\ pc[p] = "returned" =>
                /\ Cardinality(RowsOf(p).schemas) <= 1
                /\ {Plain(s) : s \in schemas'} = {Plain(s) : s \in schemas}
      ]_vars

\* A call has returned an existing schema whose status is not the status the
\* call asked for, and has inserted no row.
C19_Witness ==
    \E p \in SeqProcs :
        /\ pc[p] = "returned"
        /\ RowsOf(p) = NoRows
        /\ \E s \in Committed(schemas) :
              /\ s.id = ret[p].id
              /\ s.status # args[p].status
              /\ s.avro_schema_json = args[p].avro_schema_json

----------------------------------------------------------------------------
(* C20 *)

\* C20: whenever a request inserts a schema, the topic it inserts in is the
\* latest topic of its domain, the one of greatest id, at that moment.
C20_InsertOnlyInLatestTopic ==
    [][\A p \in Procs :
          pc[p] = "create_schema" /\ pc'[p] = "add_elements" =>
              \A n \in schemas' \ schemas :
                  n.topic_id = get_latest_topic_of_domain(p, args[p].pair)
      ]_vars

\* The same, for one request at a time.
C20_InsertOnlyInLatestTopicSeq ==
    [][\A p \in SeqProcs :
          pc[p] = "create_schema" /\ pc'[p] = "add_elements" =>
              \A n \in schemas' \ schemas :
                  n.topic_id = get_latest_topic_of_domain(p, args[p].pair)
      ]_vars

----------------------------------------------------------------------------
(* C21 *)

\* What request p returns is a schema row it can read with the json and the
\* base_schema_id of the call, in the topic of greatest id of the call's
\* domain, and, unless Disabled, the enabled schema of greatest id there.
ReturnsLatestOfLatestTopic(p) ==
    \E s \in Visible(p, schemas) :
        /\ s.id = ret[p].id
        /\ s.avro_schema_json = args[p].avro_schema_json
        /\ s.base_schema_id = args[p].base_schema_id
        /\ \E t \in Visible(p, topics) :
              /\ t.id = s.topic_id
              /\ \E d \in Visible(p, domains) :
                    /\ d.pair = args[p].pair
                    /\ t.domain_id = d.id
                    /\ \A o \in Visible(p, topics) :
                          o.domain_id = d.id => o.id <= t.id
        /\ s.status # DISABLED =>
              \A o \in Visible(p, schemas) :
                  o.topic_id = s.topic_id /\ o.status # DISABLED
                     => o.id <= s.id

\* C21: when a register call returns, with no status update made so far,
\* the schema it returns has the candidate json and the caller's
\* base_schema_id, is in the latest topic of the domain, and when it is not
\* Disabled it is the latest enabled schema of that topic.
C21_ReturnsLatestOfLatestTopic ==
    \A p \in Procs :
        pc[p] = "returned" /\ marks = 0 => ReturnsLatestOfLatestTopic(p)

\* The same, for one request at a time and with status updates between calls.
C21_ReturnsLatestOfLatestTopicSeq ==
    \A p \in SeqProcs :
        pc[p] = "returned" => ReturnsLatestOfLatestTopic(p)

----------------------------------------------------------------------------
(* C22 *)

\* The query returned the boolean b.
Answers(r, b) == r.kind = "bool" /\ r.value = b

\* At its check, request p rolls over from an existing topic to a new one.
RollsOver(p) == topic[p] # 0 /\ pc'[p] = "create_topic"

\* C22: asked on the store as it is before a register call, with the call's
\* schema and pair, is_schema_compatible returns true when the call creates
\* no topic beyond the first of its domain, and false exactly when the call
\* rolls over from an existing topic; this for every pair, one without Domain
\* included.
C22_PredictsAppendOrRollover ==
    [][\A p \in SeqProcs :
          pc[p] = "check" =>
              LET r == is_schema_compatible(
                           0, args[p].avro_schema_json, args[p].pair)
              IN  /\ ~RollsOver(p) => Answers(r, TRUE)
                  /\ RollsOver(p) <=> Answers(r, FALSE)
      ]_vars

\* The same for the pairs that have a Domain before the call.
C22_PredictsWhereDomainExists ==
    [][\A p \in SeqProcs :
          pc[p] = "check" /\ get_domain_by_fullname(0, args[p].pair) # {} =>
              LET r == is_schema_compatible(
                           0, args[p].avro_schema_json, args[p].pair)
              IN  /\ ~RollsOver(p) => Answers(r, TRUE)
                  /\ RollsOver(p) <=> Answers(r, FALSE)
      ]_vars

====
